---- MODULE Spec2Model ----
(***************************************************************************)
(* Credential / session lifecycle of the MERN authentication backend:      *)
(* the User store, token issuance (jwt.sign), the protect middleware,      *)
(* the register / login / getMe / logout operations and the central        *)
(* errorHandler.  The clock counts seconds.                                 *)
(***************************************************************************)
EXTENDS Integers, Sequences, FiniteSets, TLC

\* ------------------------------------------------------------------ bounds
MaxUsers == 2        \* number of _id values the store hands out
MaxDays == 8         \* last day the clock reaches
MaxRacers == 2       \* number of registrations that can be in flight together

\* ------------------------------------------------------- program constants
DAY == 86400                 \* seconds in 24 * 60 * 60
JWT_EXPIRES_IN_DAYS == 7     \* default '7d' of process.env.JWT_EXPIRES_IN
JWT_COOKIE_EXPIRES_IN == 7   \* days, process.env.JWT_COOKIE_EXPIRES_IN
DUPLICATE_KEY == 11000       \* MongoDB duplicate key error code
JWT_EXPIRES_IN == JWT_EXPIRES_IN_DAYS * DAY

\* ------------------------------------------------------------- input sets
Usernames == {"alice", "bob"}
Emails == {"alice@example.com", "bob@example.com"}
Passwords == {"Secur3Pass!", "password123"}
\* the password accounts are registered with; a login may try any of Passwords
RegisterPasswords == {"Secur3Pass!"}
Instants == {0, 6 * DAY, MaxDays * DAY}
Slots == 1..MaxRacers
UserIds == 1..MaxUsers
Modes == {"development", "production"}

JWT_SECRET == "server-secret"
OTHER_SECRET == "attacker-secret"

\* -------------------------------------------------------------------- state
VARIABLES
    NODE_ENV,   \* process.env.NODE_ENV
    env,        \* process.env: JWT_EXPIRES_IN and JWT_COOKIE_EXPIRES_IN
    users,      \* the User collection
    nextId,     \* next _id the store hands out
    now,        \* the clock, in seconds
    kept,       \* the token the client kept from an earlier response
    loggedOut,  \* whether a logout presenting the kept token was answered 200
    req,        \* per slot: the request awaiting the store, if any
    last,       \* the request answered by the last step, with its response, until delivered
    plainOf,    \* per _id: the plaintext password last set on the record
    call,       \* the invocation of an asyncHandler wrapper under way
    ui          \* the single-page frontend in the visitor's browser

vars == <<NODE_ENV, env, users, nextId, now, kept, loggedOut, req, last, plainOf, call, ui>>

\* an environment variable: left unset, or set to a value
Unset == [set |-> FALSE, value |-> 0]
Value(v) == [set |-> TRUE, value |-> v]

\* the .env of the README: JWT_EXPIRES_IN=7d, JWT_COOKIE_EXPIRES_IN=7
DotEnv == [JWT_EXPIRES_IN |-> Value(JWT_EXPIRES_IN), JWT_COOKIE_EXPIRES_IN |-> Value(JWT_COOKIE_EXPIRES_IN)]

\* configurations the server starts under: each option unset, one day, or seven
Configs ==
    [JWT_EXPIRES_IN : {Unset, Value(DAY), Value(JWT_EXPIRES_IN)},
     JWT_COOKIE_EXPIRES_IN : {Unset, Value(1), Value(JWT_COOKIE_EXPIRES_IN)}]

\* new Date(ms): a date, or Invalid Date when the argument is NaN
DateOf(t) == [valid |-> TRUE, time |-> t]
InvalidDate == [valid |-> FALSE, time |-> 0]

\* --------------------------------------------------------------- User model
Absent == ""
NoUser == [id |-> 0, username |-> Absent, email |-> Absent, password |-> Absent, isActive |-> FALSE]

\* bcrypt.hash(password, 12): one-way, never the plaintext itself
BcryptHash(plain) == "$2a$12$" \o plain

\* bcrypt.compare(candidate, hash)
CorrectPassword(candidatePassword, userPassword) == BcryptHash(candidatePassword) = userPassword

\* password has select:false: queries leave the field out unless asked for
SelectWithoutPassword(user) == [user EXCEPT !.password = Absent]

FindByIdPlain(store, id) ==
    IF \E u \in store : u.id = id
    THEN CHOOSE u \in store : u.id = id
    ELSE NoUser

\* findById that selects the password as well
FindById_WithPassword(store, id) == FindByIdPlain(store, id)

\* a lookup answered from a copy made when the account was still active
FindById_AssumeActive(store, id) ==
    LET user == SelectWithoutPassword(FindByIdPlain(store, id))
    IN  IF user = NoUser THEN NoUser ELSE [user EXCEPT !.isActive = TRUE]

\* User.findById(id) with the default projection
FindById(store, id) == SelectWithoutPassword(FindByIdPlain(store, id))

\* User.findOne({ email }).select('+password')
FindOneByEmailWithPassword(store, email) ==
    IF \E u \in store : u.email = email
    THEN CHOOSE u \in store : u.email = email
    ELSE NoUser

\* a store whose only unique index is on email
DuplicateKeyField_EmailOnly(store, doc) ==
    IF \E u \in store : u.email = doc.email THEN "email" ELSE "none"

\* unique indexes on email and username: the key pattern a create would violate
DuplicateKeyField(store, doc) ==
    IF \E u \in store : u.email = doc.email THEN "email"
    ELSE IF \E u \in store : u.username = doc.username THEN "username"
    ELSE "none"

\* pre('save') hook of a new document: the password is modified, so it is hashed
PreSave(doc) == [doc EXCEPT !.password = BcryptHash(doc.password)]

\* a pre('save') hook that hashes whether or not the password was modified
PreSaveHook_AlwaysHash(doc, passwordModified) == PreSave(doc)

\* pre('save') hook of any save: if (!this.isModified('password')) return next()
PreSaveHook(doc, passwordModified) == IF ~passwordModified THEN doc ELSE PreSave(doc)

NewUser(id, username, email, password) ==
    [id |-> id, username |-> username, email |-> email, password |-> password, isActive |-> TRUE]

\* ------------------------------------------------------------------- tokens
\* keyed MAC over the payload
Mac(id, iat, exp, key) == <<key, id, iat, exp>>

NoToken == [fmt |-> "absent", text |-> "", id |-> 0, iat |-> 0, exp |-> 0, sig |-> <<"", 0, 0, 0>>]
RawToken(text) == [fmt |-> "raw", text |-> text, id |-> 0, iat |-> 0, exp |-> 0, sig |-> <<"", 0, 0, 0>>]
LogoutSentinel == RawToken("none")

\* expiresIn: process.env.JWT_EXPIRES_IN || '7d', in seconds
ExpiresIn == IF env.JWT_EXPIRES_IN.set THEN env.JWT_EXPIRES_IN.value ELSE JWT_EXPIRES_IN

\* jwt.sign({ id }, secret, { expiresIn })
SignToken(id, t) ==
    [fmt |-> "jwt", text |-> "", id |-> id, iat |-> t, exp |-> t + ExpiresIn,
     sig |-> Mac(id, t, t + ExpiresIn, JWT_SECRET)]

\* jwt.verify(token, secret) at clock t: "ok" or the name:message of the error thrown
JwtVerify(token, t) ==
    IF token.fmt # "jwt" THEN "JsonWebTokenError:jwt malformed"
    ELSE IF token.sig # Mac(token.id, token.iat, token.exp, JWT_SECRET)
         THEN "JsonWebTokenError:invalid signature"
    ELSE IF t >= token.exp THEN "TokenExpiredError:jwt expired"
    ELSE "ok"

\* what a client can do to a token it holds: re-sign it with a key of its own,
\* or rewrite the subject and keep the signature
Forgeries(tok) ==
    { [tok EXCEPT !.sig = Mac(tok.id, tok.iat, tok.exp, OTHER_SECRET)],
      [tok EXCEPT !.id = (tok.id % MaxUsers) + 1] }

\* ------------------------------------------------------------------- errors
\* an AppError whose constructor drops the status code
AppError_NoStatusCode(message, statusCode) ==
    [name |-> "Error", message |-> message, statusCode |-> 0, status |-> "",
     isOperational |-> TRUE, code |-> 0, keyField |-> ""]

\* new AppError(message, statusCode)
AppError(message, statusCode) ==
    [name |-> "Error", message |-> message, statusCode |-> statusCode,
     status |-> IF statusCode \in 400..499 THEN "fail" ELSE "error",
     isOperational |-> TRUE, code |-> 0, keyField |-> ""]

\* an error thrown by a library: no statusCode, no status, not operational
LibraryError(name, message, code, keyField) ==
    [name |-> name, message |-> message, statusCode |-> 0, status |-> "",
     isOperational |-> FALSE, code |-> code, keyField |-> keyField]

NoError == LibraryError("", "", 0, "")

\* the error jwt.verify throws for a verdict other than "ok"
JwtError(verdict) ==
    IF verdict = "TokenExpiredError:jwt expired" THEN LibraryError("TokenExpiredError", "jwt expired", 0, "")
    ELSE IF verdict = "JsonWebTokenError:invalid signature"
         THEN LibraryError("JsonWebTokenError", "invalid signature", 0, "")
    ELSE LibraryError("JsonWebTokenError", "jwt malformed", 0, "")

\* the error User.create throws when a unique index is violated
DuplicateKeyError(field) == LibraryError("MongoServerError", "E11000 duplicate key error", DUPLICATE_KEY, field)

handleCastErrorDB(err) == AppError("Invalid _id", 400)
\* a duplicate key translated to a conflict
handleDuplicateFieldsDB_Conflict(err) ==
    AppError(IF err.keyField = "email" THEN "Duplicate field value: email. Please use another value"
             ELSE "Duplicate field value: username. Please use another value", 409)

handleDuplicateFieldsDB(err) ==
    AppError(IF err.keyField = "email" THEN "Duplicate field value: email. Please use another value"
             ELSE "Duplicate field value: username. Please use another value", 400)
handleValidationErrorDB(err) == AppError("Invalid input data", 400)
handleJWTError == AppError("Invalid token. Please log in again", 401)
handleJWTExpiredError == AppError("Token expired. Please log in again", 401)

\* ---------------------------------------------------------------- responses
NoCookie == [set |-> FALSE, value |-> NoToken, expires |-> InvalidDate, httpOnly |-> FALSE, secure |-> FALSE, sameSite |-> ""]

Response(writer, code, status, message) ==
    [writer |-> writer, code |-> code, status |-> status, message |-> message,
     stack |-> FALSE, token |-> NoToken, user |-> NoUser, cookie |-> NoCookie,
     errors |-> <<>>]

NoResponse == Response("none", 0, "", "")

sendErrorDev(err) ==
    [Response("errorHandler", err.statusCode, err.status, err.message) EXCEPT !.stack = TRUE]

\* a production branch that answers every error with its own code and message
sendErrorProd_Leaky(err) == Response("errorHandler", err.statusCode, err.status, err.message)

sendErrorProd(err) ==
    IF err.isOperational
    THEN Response("errorHandler", err.statusCode, err.status, err.message)
    ELSE Response("errorHandler", 500, "error", "Something went wrong!")

\* the translation chain of the production branch, applied in source order
TranslateError(err) ==
    LET e1 == IF err.name = "CastError" THEN handleCastErrorDB(err) ELSE err
        e2 == IF err.code = DUPLICATE_KEY THEN handleDuplicateFieldsDB(err) ELSE e1
        e3 == IF err.name = "ValidationError" THEN handleValidationErrorDB(err) ELSE e2
        e4 == IF err.name = "JsonWebTokenError" THEN handleJWTError ELSE e3
        e5 == IF err.name = "TokenExpiredError" THEN handleJWTExpiredError ELSE e4
    IN  e5

errorHandler(error, mode) ==
    LET err == [error EXCEPT !.statusCode = IF @ = 0 THEN 500 ELSE @,
                             !.status = IF @ = "" THEN "error" ELSE @]
    IN  IF mode = "development" THEN sendErrorDev(err)
        ELSE sendErrorProd(TranslateError(err))

\* cookie options that are never marked secure
CookieOptions_NeverSecure(value, expires, mode) ==
    [set |-> TRUE, value |-> value, expires |-> expires, httpOnly |-> TRUE,
     secure |-> FALSE,
     sameSite |-> IF mode = "production" THEN "none" ELSE "strict"]

\* cookie attributes shared by createSendToken and logout
CookieOptions(value, expires, mode) ==
    [set |-> TRUE, value |-> value, expires |-> expires, httpOnly |-> TRUE,
     secure |-> (mode = "production"),
     sameSite |-> IF mode = "production" THEN "none" ELSE "strict"]

\* new Date(Date.now() + process.env.JWT_COOKIE_EXPIRES_IN * 24 * 60 * 60 * 1000):
\* undefined * 24 is NaN, and the date of NaN is Invalid Date
CookieExpires(t) ==
    IF env.JWT_COOKIE_EXPIRES_IN.set THEN DateOf(t + env.JWT_COOKIE_EXPIRES_IN.value * DAY)
    ELSE InvalidDate

\* a createSendToken that signs one token for the cookie and another for the body
createSendToken_TwoTokens(user, statusCode, mode, t) ==
    [Response("createSendToken", statusCode, "success", "") EXCEPT
        !.cookie = CookieOptions(SignToken(user.id, t), CookieExpires(t), mode),
        !.token = SignToken(user.id, t + 1),
        !.user = user]

\* createSendToken(user, statusCode, res) at clock t
createSendToken(user, statusCode, mode, t) ==
    LET token == SignToken(user.id, t)
    IN  [Response("createSendToken", statusCode, "success", "") EXCEPT
            !.cookie = CookieOptions(token, CookieExpires(t), mode),
            !.token = token,
            !.user = user]

\* ------------------------------------------------- csrfProtection middleware
CORS_ORIGIN == "https://miapp.com"

Methods == {"GET", "HEAD", "OPTIONS", "POST", "PUT", "PATCH", "DELETE"}

\* req.get(name) of a header the request does not carry
NoHeader == ""

Origins == {NoHeader, CORS_ORIGIN, "https://evil.example"}
Referers == {NoHeader, CORS_ORIGIN \o "/login", "https://evil.example/", CORS_ORIGIN \o ".evil.example/"}
Headers == [origin : Origins, referer : Referers]

\* what a browser on the configured frontend sends
FrontendHeaders == {[origin |-> CORS_ORIGIN, referer |-> CORS_ORIGIN \o "/login"]}

\* String.prototype.startsWith
StartsWith(str, prefix) == Len(str) >= Len(prefix) /\ SubSeq(str, 1, Len(prefix)) = prefix

CsrfFailed == Response("csrfProtection", 403, "error", "CSRF validation failed")

\* a guard that checks the headers in every mode and for every method
csrfProtection_AlwaysChecks(method, origin, referer, mode) ==
    IF origin # NoHeader /\ origin # CORS_ORIGIN THEN [next |-> FALSE, res |-> CsrfFailed]
    ELSE IF referer # NoHeader /\ ~StartsWith(referer, CORS_ORIGIN) THEN [next |-> FALSE, res |-> CsrfFailed]
    ELSE [next |-> TRUE, res |-> NoResponse]

\* csrfProtection(req, res, next): next() or the 403 it writes itself
csrfProtection(method, origin, referer, mode) ==
    IF mode # "production" \/ method \in {"GET", "HEAD", "OPTIONS"} THEN [next |-> TRUE, res |-> NoResponse]
    ELSE IF origin # NoHeader /\ origin # CORS_ORIGIN THEN [next |-> FALSE, res |-> CsrfFailed]
    ELSE IF referer # NoHeader /\ ~StartsWith(referer, CORS_ORIGIN) THEN [next |-> FALSE, res |-> CsrfFailed]
    ELSE [next |-> TRUE, res |-> NoResponse]

\* the method each route of auth.routes.js is mounted on
MethodOf(route) == IF route = "me" THEN "GET" ELSE "POST"

\* ------------------------------------------------------- protect middleware
\* req.headers.authorization after split(' '): <<>> when the header is absent
NoAuth == <<>>

\* extraction that prefers the Authorization header to the cookie
ExtractToken_HeaderFirst(cookie, auth) ==
    IF Len(auth) >= 2 /\ auth[1] = "Bearer" THEN [token |-> auth[2], src |-> "header"]
    ELSE IF cookie.fmt # "absent" THEN [token |-> cookie, src |-> "cookie"]
    ELSE [token |-> NoToken, src |-> "none"]

\* step 1 of protect: cookie first, Authorization: Bearer otherwise
ExtractToken(cookie, auth) ==
    IF cookie.fmt # "absent" THEN [token |-> cookie, src |-> "cookie"]
    ELSE IF Len(auth) > 0 /\ auth[1] = "Bearer"
         THEN [token |-> IF Len(auth) >= 2 THEN auth[2] ELSE NoToken, src |-> "header"]
    ELSE [token |-> NoToken, src |-> "none"]

\* protect that decodes the token without verifying it
protectVerify_DecodeOnly(cookie, auth, t) ==
    LET ext == ExtractToken(cookie, auth)
    IN  IF ext.token.fmt = "absent"
        THEN [ok |-> FALSE, err |-> AppError("You are not logged in", 401),
              token |-> ext.token, src |-> ext.src, steps |-> <<"extract">>]
        ELSE [ok |-> TRUE, err |-> NoError,
              token |-> ext.token, src |-> ext.src, steps |-> <<"extract", "verify">>]

\* steps 1-3 of protect, up to the await of User.findById
protectVerify(cookie, auth, t) ==
    LET ext == ExtractToken(cookie, auth)
        verdict == JwtVerify(ext.token, t)
    IN  IF ext.token.fmt = "absent"
        THEN [ok |-> FALSE, err |-> AppError("You are not logged in", 401),
              token |-> ext.token, src |-> ext.src, steps |-> <<"extract">>]
        ELSE IF verdict # "ok"
        THEN [ok |-> FALSE, err |-> JwtError(verdict),
              token |-> ext.token, src |-> ext.src, steps |-> <<"extract", "verify">>]
        ELSE [ok |-> TRUE, err |-> NoError,
              token |-> ext.token, src |-> ext.src, steps |-> <<"extract", "verify">>]

\* protect without the isActive check
protectResolve_SkipActive(user) ==
    IF user = NoUser
    THEN [ok |-> FALSE, err |-> AppError("User no longer exists", 401),
          user |-> NoUser, steps |-> <<"resolve">>]
    ELSE [ok |-> TRUE, err |-> NoError,
          user |-> user, steps |-> <<"resolve", "authorize", "accept">>]

\* protect that answers a deactivated account with another status
protectResolve_Forbidden(user) ==
    IF user = NoUser
    THEN [ok |-> FALSE, err |-> AppError("User no longer exists", 401),
          user |-> NoUser, steps |-> <<"resolve">>]
    ELSE IF ~user.isActive
    THEN [ok |-> FALSE, err |-> AppError("User account is deactivated", 403),
          user |-> NoUser, steps |-> <<"resolve", "authorize">>]
    ELSE [ok |-> TRUE, err |-> NoError,
          user |-> user, steps |-> <<"resolve", "authorize", "accept">>]

\* steps 4-6 of protect, on the document findById resolved to
protectResolve(user) ==
    IF user = NoUser
    THEN [ok |-> FALSE, err |-> AppError("User no longer exists", 401),
          user |-> NoUser, steps |-> <<"resolve">>]
    ELSE IF ~user.isActive
    THEN [ok |-> FALSE, err |-> AppError("User account is deactivated", 401),
          user |-> NoUser, steps |-> <<"resolve", "authorize">>]
    ELSE [ok |-> TRUE, err |-> NoError,
          user |-> user, steps |-> <<"resolve", "authorize", "accept">>]

\* -------------------------------------------------------------- controllers
getMe(reqUser) == [Response("getMe", 200, "success", "") EXCEPT !.user = reqUser]

logout(mode, t) ==
    [Response("logout", 200, "success", "Logged out successfully") EXCEPT
        !.cookie = CookieOptions(LogoutSentinel, DateOf(t + 10), mode)]

\* the existence check of register: which field of the body is already taken
registerConflict(store, body) ==
    IF \E u \in store : u.email = body.email THEN "email"
    ELSE IF \E u \in store : u.username = body.username THEN "username"
    ELSE "none"

registerConflictError(field) ==
    AppError(IF field = "email" THEN "Email already registered" ELSE "Username already taken", 409)

\* a credential check that tells an unknown email from a wrong password
loginCredentials_UserNotFound(user, password) ==
    IF user = NoUser THEN AppError("User not found", 404)
    ELSE IF ~CorrectPassword(password, user.password)
    THEN AppError("Incorrect email or password", 401)
    ELSE NoError

\* a credential check that never compares the password
loginCredentials_NoCompare(user, password) ==
    IF user = NoUser THEN AppError("Incorrect email or password", 401) ELSE NoError

\* the credential check of login on the document findOne resolved to
loginCredentials(user, password) ==
    IF user = NoUser \/ ~CorrectPassword(password, user.password)
    THEN AppError("Incorrect email or password", 401)
    ELSE NoError

\* the active check of login, made once the credentials matched
loginActive(user) ==
    IF ~user.isActive THEN AppError("User account is deactivated", 403) ELSE NoError

\* User.create(doc): the pre-save hook, then the insert under the unique indexes
UserCreate(store, doc) ==
    LET saved == PreSave(doc)
        dup == DuplicateKeyField(store, saved)
    IN  IF dup # "none"
        THEN [ok |-> FALSE, err |-> DuplicateKeyError(dup), doc |-> NoUser, store |-> store]
        ELSE [ok |-> TRUE, err |-> NoError, doc |-> saved, store |-> store \cup {saved}]

\* -------------------------------------------------------------------- state
NoBody == [username |-> "", email |-> "", password |-> ""]

IdleReq ==
    [pc |-> "idle", route |-> "none", method |-> "", origin |-> NoHeader, referer |-> NoHeader,
     body |-> NoBody, cookie |-> NoToken, auth |-> NoAuth,
     token |-> NoToken, src |-> "none", steps |-> <<>>, at |-> 0,
     user |-> NoUser, found |-> NoUser, conflict |-> "none", err |-> NoError]

NoEvent == [req |-> IdleReq, res |-> NoResponse]

\* no asyncHandler wrapper running
IdleCall == [pc |-> "idle", fn |-> "none", err |-> NoError, nextCalls |-> <<>>, escaped |-> NoError]

\* no page of the frontend open
ClosedUi ==
    [path |-> "none", auth |-> "none", session |-> FALSE, screen |-> "none",
     checking |-> FALSE, logout |-> "none", status |-> 0, toasts |-> <<>>,
     navigated |-> "none", reload |-> "none", theme |-> "light"]

\* the state every specification starts the server in, up to its configuration
Started ==
    /\ plainOf = [id \in UserIds |-> ""]
    /\ call = IdleCall
    /\ ui = ClosedUi
    /\ NODE_ENV \in Modes
    /\ users = {}
    /\ nextId = 1
    /\ now = 0
    /\ kept = NoToken
    /\ loggedOut = FALSE
    /\ req = [r \in Slots |-> IdleReq]
    /\ last = NoEvent

Init == Started /\ env = DotEnv

\* token values a client can present
TokenChoices == (IF kept = NoToken THEN {} ELSE {kept} \cup Forgeries(kept)) \cup {LogoutSentinel}
CookieChoices == {NoToken} \cup TokenChoices
AuthChoices ==
    {NoAuth, <<"Bearer">>, <<"Basic", LogoutSentinel>>} \cup {<<"Bearer", t>> : t \in TokenChoices}

Creating == {r \in Slots : req[r].pc = "create"}
Busy == {r \in Slots : req[r].pc # "idle"}

\* a request as it reaches the application
Arrived(route, method, h) ==
    [IdleReq EXCEPT !.route = route, !.method = method, !.origin = h.origin, !.referer = h.referer,
                    !.at = now]

\* whether csrfProtection hands the request on
Passes(method, h) == csrfProtection(method, h.origin, h.referer, NODE_ENV).next

\* the error res.cookie throws for an Invalid Date when the cookie library validates it
InvalidExpires == LibraryError("TypeError", "option expires is invalid", 0, "")

\* the outcomes of res.cookie for the options createSendToken built: a date is
\* serialized; an Invalid Date is serialized or refused, as the library version has it
CookieThrows == IF env.JWT_COOKIE_EXPIRES_IN.set THEN {FALSE} ELSE BOOLEAN

\* the error a query rejects with while MongoDB is down
StoreDown == LibraryError("MongoNetworkError", "connect ECONNREFUSED 127.0.0.1:27017", 0, "")

\* ------------------------------------------------------------------ actions
Tick(t) ==
    /\ last = NoEvent
    /\ t > now
    /\ now' = t
    /\ UNCHANGED <<plainOf, call, ui, NODE_ENV, env, users, nextId, kept, loggedOut, req, last>>

\* the administrative path outside the application: isActive set to false in the store
AdminDeactivate(id) ==
    /\ last = NoEvent
    /\ \E u \in users : u.id = id /\ u.isActive
    /\ users' = {IF u.id = id THEN [u EXCEPT !.isActive = FALSE] ELSE u : u \in users}
    /\ UNCHANGED <<plainOf, call, ui, NODE_ENV, env, nextId, now, kept, loggedOut, req, last>>

\* a document removed directly in the store
AdminDelete(id) ==
    /\ last = NoEvent
    /\ \E u \in users : u.id = id
    /\ users' = {u \in users : u.id # id}
    /\ UNCHANGED <<plainOf, call, ui, NODE_ENV, env, nextId, now, kept, loggedOut, req, last>>

\* a request csrfProtection answers itself; route "none" is any other path
CsrfReject(route, method, h) ==
    LET gate == csrfProtection(method, h.origin, h.referer, NODE_ENV)
        ctx == [Arrived(route, method, h) EXCEPT !.steps = <<"csrf">>]
    IN  /\ last = NoEvent
        /\ route = "none" \/ method = MethodOf(route)
        /\ ~gate.next
        /\ last' = [req |-> ctx, res |-> gate.res]
        /\ UNCHANGED <<plainOf, call, ui, NODE_ENV, env, users, nextId, now, kept, loggedOut, req>>

\* a request csrfProtection hands on with next() on a path the auth router has no
\* handler for; the model follows it no further
Unrouted(method, h) ==
    LET ctx == [Arrived("none", method, h) EXCEPT !.steps = <<"csrf", "next">>]
    IN  /\ last = NoEvent
        /\ Passes(method, h)
        /\ last' = [req |-> ctx, res |-> Response("next", 0, "", "")]
        /\ UNCHANGED <<plainOf, call, ui, NODE_ENV, env, users, nextId, now, kept, loggedOut, req>>

\* ------------------------------------------------------------- validators
Char(str, i) == SubSeq(str, i, i)

LowerCase == "abcdefghijklmnopqrstuvwxyz"
UpperCase == "ABCDEFGHIJKLMNOPQRSTUVWXYZ"
WordChars == LowerCase \o UpperCase \o "0123456789_"

Contains(str, c) == \E i \in 1..Len(str) : Char(str, i) = c

\* String.prototype.trim, for the blanks a form field can carry
RECURSIVE TrimStart(_)
TrimStart(str) ==
    IF str # "" /\ Char(str, 1) = " " THEN TrimStart(SubSeq(str, 2, Len(str))) ELSE str

RECURSIVE TrimEnd(_)
TrimEnd(str) ==
    IF str # "" /\ Char(str, Len(str)) = " " THEN TrimEnd(SubSeq(str, 1, Len(str) - 1)) ELSE str

Trim(str) == TrimEnd(TrimStart(str))

ToLower(c) ==
    IF Contains(UpperCase, c)
    THEN Char(LowerCase, CHOOSE i \in 1..Len(UpperCase) : Char(UpperCase, i) = c)
    ELSE c

\* normalizeEmail() with its defaults: the address in lower case
RECURSIVE NormalizeEmail(_)
NormalizeEmail(str) ==
    IF str = "" THEN "" ELSE ToLower(Char(str, 1)) \o NormalizeEmail(SubSeq(str, 2, Len(str)))

\* /^[a-zA-Z0-9_]+$/
MatchesWord(str) == str # "" /\ \A i \in 1..Len(str) : Contains(WordChars, Char(str, i))

\* isEmail(): one @ after a local part, then a domain with a dot inside it, no blanks
IsEmail(str) ==
    /\ ~Contains(str, " ")
    /\ \E i \in 2..Len(str) :
          /\ Char(str, i) = "@"
          /\ \A k \in 1..Len(str) : Char(str, k) = "@" => k = i
          /\ \E j \in (i + 2)..(Len(str) - 1) : Char(str, j) = "."

Failed(test, msg) == IF test THEN <<>> ELSE <<msg>>

\* the errors registerValidator leaves in the request, in the order of its chains
registerValidator(body) ==
    Failed(Len(Trim(body.username)) >= 3 /\ Len(Trim(body.username)) <= 30,
           "Username must be between 3 and 30 characters")
    \o Failed(MatchesWord(Trim(body.username)),
               "Username can only contain letters, numbers, and underscores")
    \o Failed(IsEmail(Trim(body.email)), "Please provide a valid email")
    \o Failed(Len(body.password) >= 6, "Password must be at least 6 characters")

\* the body registerValidator's sanitizers leave for the controller
registerSanitized(body) ==
    [username |-> Trim(body.username), email |-> NormalizeEmail(Trim(body.email)),
     password |-> body.password]

loginValidator(body) ==
    Failed(IsEmail(Trim(body.email)), "Please provide a valid email")
    \o Failed(body.password # "", "Password is required")

loginSanitized(body) == [body EXCEPT !.email = Trim(body.email)]

\* validate: answers 400 itself when the validators left errors, else next()
validate(errors) ==
    IF errors # <<>>
    THEN [next |-> FALSE, res |-> [Response("validate", 400, "error", "") EXCEPT !.errors = errors]]
    ELSE [next |-> TRUE, res |-> NoResponse]

\* POST /auth/register up to the answer of the existence check
RegisterCheck(r, h, username, email, password) ==
    LET sent == [username |-> username, email |-> email, password |-> password]
        checked == validate(registerValidator(sent))
        body == registerSanitized(sent)
        conflict == registerConflict(users, body)
        ctx == [Arrived("register", "POST", h) EXCEPT !.body = body, !.conflict = conflict,
                                                      !.steps = <<"check">>]
        err == registerConflictError(conflict)
    IN  /\ last = NoEvent
        /\ req[r].pc = "idle"
        /\ Passes("POST", h)
        /\ ~checked.next \/ conflict # "none" \/ nextId + Cardinality(Creating) <= MaxUsers
        /\ IF ~checked.next
           THEN /\ last' = [req |-> [Arrived("register", "POST", h) EXCEPT
                                        !.body = sent, !.steps = <<"validate">>],
                            res |-> checked.res]
                /\ req' = req
           ELSE IF conflict # "none"
           THEN /\ last' = [req |-> [ctx EXCEPT !.err = err], res |-> errorHandler(err, NODE_ENV)]
                /\ req' = req
           ELSE /\ last' = last
                /\ req' = [req EXCEPT ![r] = [ctx EXCEPT !.pc = "create"]]
        /\ UNCHANGED <<plainOf, call, ui, NODE_ENV, env, users, nextId, now, kept, loggedOut>>

\* POST /auth/register from User.create to the response
RegisterCreate(r) ==
    LET body == req[r].body
        created == UserCreate(users, NewUser(nextId, body.username, body.email, body.password))
    IN  /\ last = NoEvent
        /\ req[r].pc = "create"
        /\ users' = created.store
        /\ nextId' = IF created.ok THEN nextId + 1 ELSE nextId
        /\ req' = [req EXCEPT ![r] = IdleReq]
        /\ \E throws \in CookieThrows :
              LET err == IF ~created.ok THEN created.err
                         ELSE IF throws THEN InvalidExpires ELSE NoError
                  ctx == [req[r] EXCEPT !.pc = "idle", !.steps = @ \o <<"create">>,
                                        !.conflict = created.err.keyField, !.err = err]
                  res == IF err = NoError THEN createSendToken(created.doc, 201, NODE_ENV, now)
                         ELSE errorHandler(err, NODE_ENV)
              IN  last' = [req |-> ctx, res |-> res]
        /\ plainOf' = IF created.ok THEN [plainOf EXCEPT ![nextId] = body.password] ELSE plainOf
        /\ UNCHANGED <<call, ui, NODE_ENV, env, now, kept, loggedOut>>

\* POST /auth/login; storeUp is whether the store answers the query
Login(r, h, email, password, storeUp) ==
    LET sent == [username |-> "", email |-> email, password |-> password]
        checked == validate(loginValidator(sent))
        body == loginSanitized(sent)
        found == IF storeUp THEN FindOneByEmailWithPassword(users, body.email) ELSE NoUser
        bad == loginCredentials(found, password)
        refused == IF ~storeUp THEN StoreDown
                   ELSE IF bad # NoError THEN bad ELSE loginActive(found)
    IN  /\ last = NoEvent
        /\ req[r].pc = "idle"
        /\ Passes("POST", h)
        /\ \E throws \in CookieThrows :
              LET err == IF refused # NoError THEN refused
                         ELSE IF throws THEN InvalidExpires ELSE NoError
                  ctx == [Arrived("login", "POST", h) EXCEPT
                             !.found = found, !.err = err, !.body = body]
                  res == IF err # NoError THEN errorHandler(err, NODE_ENV)
                         ELSE createSendToken(found, 200, NODE_ENV, now)
              IN  last' = IF checked.next THEN [req |-> ctx, res |-> res]
                          ELSE [req |-> [Arrived("login", "POST", h) EXCEPT
                                            !.body = sent, !.steps = <<"validate">>],
                                res |-> checked.res]
        /\ UNCHANGED <<plainOf, call, ui, NODE_ENV, env, users, nextId, now, kept, loggedOut, req>>

\* GET /auth/me and POST /auth/logout: protect up to the await of the store
ProtectVerify(r, h, route, cookie, auth) ==
    LET v == protectVerify(cookie, auth, now)
        ctx == [Arrived(route, MethodOf(route), h) EXCEPT
                   !.cookie = cookie, !.auth = auth,
                   !.token = v.token, !.src = v.src, !.steps = v.steps, !.err = v.err]
    IN  /\ last = NoEvent
        /\ req[r].pc = "idle"
        /\ Passes(MethodOf(route), h)
        /\ IF v.ok
           THEN /\ req' = [req EXCEPT ![r] = [ctx EXCEPT !.pc = "lookup"]]
                /\ last' = last
           ELSE /\ req' = req
                /\ last' = [req |-> ctx, res |-> errorHandler(v.err, NODE_ENV)]
        /\ UNCHANGED <<plainOf, call, ui, NODE_ENV, env, users, nextId, now, kept, loggedOut>>

\* a guard that keeps a denylist of tokens presented to logout
ProtectResolve_Denylist(r) ==
    LET found == FindById(users, req[r].token.id)
        p == IF loggedOut /\ req[r].token = kept
             THEN [ok |-> FALSE, err |-> AppError("Token revoked", 401),
                   user |-> NoUser, steps |-> <<"resolve">>]
             ELSE protectResolve(found)
        ctx == [req[r] EXCEPT !.pc = "idle", !.found = found, !.user = p.user, !.err = p.err,
                              !.steps = @ \o p.steps \o (IF p.ok THEN <<"handler">> ELSE <<>>)]
        res == IF ~p.ok THEN errorHandler(p.err, NODE_ENV)
               ELSE IF req[r].route = "me" THEN getMe(p.user)
               ELSE logout(NODE_ENV, now)
    IN  /\ last = NoEvent
        /\ req[r].pc = "lookup"
        /\ req' = [req EXCEPT ![r] = IdleReq]
        /\ last' = [req |-> ctx, res |-> res]
        /\ loggedOut' = (loggedOut \/ (p.ok /\ req[r].route = "logout" /\ req[r].token = kept))
        /\ UNCHANGED <<plainOf, call, ui, NODE_ENV, env, users, nextId, now, kept>>

\* protect from the answer of User.findById on, then the route's controller
ProtectResolve(r) ==
    LET found == FindById(users, req[r].token.id)
        p == protectResolve(found)
        ctx == [req[r] EXCEPT !.pc = "idle", !.found = found, !.user = p.user, !.err = p.err,
                              !.steps = @ \o p.steps \o (IF p.ok THEN <<"handler">> ELSE <<>>)]
        res == IF ~p.ok THEN errorHandler(p.err, NODE_ENV)
               ELSE IF req[r].route = "me" THEN getMe(p.user)
               ELSE logout(NODE_ENV, now)
    IN  /\ last = NoEvent
        /\ req[r].pc = "lookup"
        /\ req' = [req EXCEPT ![r] = IdleReq]
        /\ last' = [req |-> ctx, res |-> res]
        /\ loggedOut' = (loggedOut \/ (p.ok /\ req[r].route = "logout" /\ req[r].token = kept))
        /\ UNCHANGED <<plainOf, call, ui, NODE_ENV, env, users, nextId, now, kept>>

\* the client receives the response; it may keep the token of the body for later requests
Deliver(keep) ==
    /\ last # NoEvent
    /\ kept' = IF keep /\ last.res.token # NoToken THEN last.res.token ELSE kept
    /\ loggedOut' = (loggedOut /\ kept' = kept)
    /\ last' = NoEvent
    /\ UNCHANGED <<plainOf, call, ui, NODE_ENV, env, users, nextId, now, req>>

Environment ==
    \/ \E t \in Instants : Tick(t)
    \/ \E id \in UserIds : AdminDeactivate(id)
    \/ \E id \in UserIds : AdminDelete(id)
    \/ \E keep \in BOOLEAN : Deliver(keep)

\* the server answering the frontend one request at a time, interleaved with the environment
Next ==
    \/ Environment
    \/ \E r \in Slots, h \in FrontendHeaders, u \in Usernames, e \in Emails, p \in RegisterPasswords :
          Busy = {} /\ RegisterCheck(r, h, u, e, p)
    \/ \E r \in Slots : RegisterCreate(r)
    \/ \E r \in Slots, h \in FrontendHeaders, e \in Emails, p \in Passwords, up \in BOOLEAN :
          Busy = {} /\ Login(r, h, e, p, up)
    \/ \E r \in Slots, h \in FrontendHeaders, route \in {"me", "logout"},
          c \in CookieChoices, a \in AuthChoices :
          Busy = {} /\ ProtectVerify(r, h, route, c, a)
    \/ \E r \in Slots : ProtectResolve(r)

Spec == Init /\ [][Next]_vars

\* registrations racing each other
NextRace ==
    \/ \E r \in Slots, h \in FrontendHeaders, u \in Usernames, e \in Emails, p \in RegisterPasswords :
          RegisterCheck(r, h, u, e, p)
    \/ \E r \in Slots : RegisterCreate(r)
    \/ \E id \in UserIds : AdminDelete(id)
    \/ \E keep \in BOOLEAN : Deliver(keep)

SpecRace == Init /\ [][NextRace]_vars

\* requests from any site, with any Origin and Referer, under either mode
FirstSlot == CHOOSE r \in Slots : TRUE
AnyUsername == CHOOSE u \in Usernames : TRUE
AnyEmail == CHOOSE e \in Emails : TRUE
AnyPassword == CHOOSE p \in RegisterPasswords : TRUE

NextOrigin ==
    \/ \E keep \in BOOLEAN : Deliver(keep)
    \/ \E route \in {"none", "register", "login", "me", "logout"}, m \in Methods, h \in Headers :
          Busy = {} /\ CsrfReject(route, m, h)
    \/ \E m \in Methods, h \in Headers : Busy = {} /\ Unrouted(m, h)
    \/ \E h \in Headers : Busy = {} /\ RegisterCheck(FirstSlot, h, AnyUsername, AnyEmail, AnyPassword)
    \/ RegisterCreate(FirstSlot)
    \/ \E h \in Headers : Busy = {} /\ Login(FirstSlot, h, AnyEmail, AnyPassword, TRUE)
    \/ \E h \in Headers, route \in {"me", "logout"}, c \in {NoToken, kept} :
          Busy = {} /\ ProtectVerify(FirstSlot, h, route, c, NoAuth)
    \/ ProtectResolve(FirstSlot)

SpecOrigin == Init /\ [][NextOrigin]_vars

\* the whole pipeline of a request, with bodies the validators refuse among the inputs
SentUsernames == {AnyUsername, "ab", " bob_2 ", "b b"}
SentEmails == {AnyEmail, "not-an-email", "Bob@Example.com"}
SentPasswords == {AnyPassword, "12345", ""}

NextPipeline ==
    \/ \E keep \in BOOLEAN : Deliver(keep)
    \/ \E route \in {"none", "register", "login", "me", "logout"}, m \in Methods, h \in Headers :
          Busy = {} /\ CsrfReject(route, m, h)
    \/ \E h \in FrontendHeaders, u \in SentUsernames, e \in SentEmails, p \in SentPasswords :
          Busy = {} /\ RegisterCheck(FirstSlot, h, u, e, p)
    \/ RegisterCreate(FirstSlot)
    \/ \E h \in FrontendHeaders, e \in SentEmails, p \in SentPasswords, up \in BOOLEAN :
          Busy = {} /\ Login(FirstSlot, h, e, p, up)
    \/ \E h \in FrontendHeaders, route \in {"me", "logout"}, c \in CookieChoices, a \in AuthChoices :
          Busy = {} /\ ProtectVerify(FirstSlot, h, route, c, a)
    \/ ProtectResolve(FirstSlot)

SpecPipeline == Init /\ [][NextPipeline]_vars

\* the server started under each configuration of the two lifetimes
InitConfig == Started /\ env \in Configs

NextConfig ==
    \/ \E t \in Instants : Tick(t)
    \/ \E keep \in BOOLEAN : Deliver(keep)
    \/ \E h \in FrontendHeaders, u \in Usernames, e \in Emails :
          Busy = {} /\ RegisterCheck(FirstSlot, h, u, e, AnyPassword)
    \/ RegisterCreate(FirstSlot)
    \/ \E h \in FrontendHeaders, e \in Emails, p \in Passwords :
          Busy = {} /\ Login(FirstSlot, h, e, p, TRUE)
    \/ \E h \in FrontendHeaders, c \in {NoToken, kept} :
          Busy = {} /\ ProtectVerify(FirstSlot, h, "me", c, NoAuth)
    \/ ProtectResolve(FirstSlot)

SpecConfig == InitConfig /\ [][NextConfig]_vars

\* ------------------------------------------------------------- asyncHandler
\* what a wrapped handler fn does when the wrapper calls it
FnKinds == {"async resolves", "async rejects", "returns value", "throws"}

\* the errors a handler can fail with: store failures, token failures, errors
\* the controllers throw themselves
HandlerErrors ==
    {DuplicateKeyError("email"), DuplicateKeyError("username"),
     LibraryError("CastError", "Cast to ObjectId failed for value abc123", 0, ""),
     LibraryError("ValidationError", "User validation failed: password", 0, ""),
     LibraryError("TypeError", "Cannot read properties of undefined", 0, ""),
     StoreDown,
     JwtError("JsonWebTokenError:jwt malformed"), JwtError("TokenExpiredError:jwt expired"),
     AppError("You are not logged in", 401), AppError("Incorrect email or password", 401),
     AppError("User account is deactivated", 401), AppError("User not found", 404),
     AppError("Database connection failed", 500)}

Fails(fn) == fn \in {"async rejects", "throws"}

\* the wrapper up to its return: Promise.resolve(fn(req, res, next)).catch(next).
\* fn is called before Promise.resolve is, so what it throws leaves the wrapper
asyncHandler(fn, err) ==
    IF fn = "throws"
    THEN [pc |-> "done", fn |-> fn, err |-> err, nextCalls |-> <<>>, escaped |-> err]
    ELSE [pc |-> "pending", fn |-> fn, err |-> err, nextCalls |-> <<>>, escaped |-> NoError]

\* the promise of the wrapper settles: catch(next) runs for a rejection only
asyncHandlerSettled(c) ==
    [c EXCEPT !.pc = "done",
              !.nextCalls = IF c.fn = "async rejects" THEN <<c.err>> ELSE <<>>]

\* a request whose handler is wrapped by asyncHandler reaches the wrapper
WrapperCall(fn, err) ==
    /\ last = NoEvent
    /\ call.pc \in {"idle", "done"}
    /\ Fails(fn) <=> err # NoError
    /\ call' = asyncHandler(fn, err)
    /\ UNCHANGED <<plainOf, ui, NODE_ENV, env, users, nextId, now, kept, loggedOut, req, last>>

\* the promise settles; next(err) hands the error to errorHandler, and a handler
\* that succeeded has written its own response
WrapperSettle ==
    LET c == asyncHandlerSettled(call)
        ctx == [IdleReq EXCEPT !.route = "handler", !.at = now, !.err = call.err,
                               !.steps = <<"handler">> \o (IF c.nextCalls # <<>> THEN <<"next">> ELSE <<>>)]
    IN  /\ last = NoEvent
        /\ call.pc = "pending"
        /\ call' = c
        /\ last' = [req |-> ctx,
                    res |-> IF c.nextCalls # <<>> THEN errorHandler(c.nextCalls[1], NODE_ENV)
                            ELSE Response("handler", 200, "success", "")]
        /\ UNCHANGED <<plainOf, ui, NODE_ENV, env, users, nextId, now, kept, loggedOut, req>>

NextBoundary ==
    \/ \E keep \in BOOLEAN : Deliver(keep)
    \/ \E fn \in FnKinds, err \in HandlerErrors \cup {NoError} : WrapperCall(fn, err)
    \/ WrapperSettle

SpecBoundary == Init /\ [][NextBoundary]_vars

\* a later save() of a record: change is the plaintext assigned to password before
\* the save, or "none" when the save modifies other fields only
UserSave(id, change) ==
    LET modified == change # "none"
    IN  /\ last = NoEvent
        /\ \E u \in users : u.id = id
        /\ users' = {IF u.id = id
                      THEN PreSaveHook(IF modified THEN [u EXCEPT !.password = change] ELSE u, modified)
                      ELSE u : u \in users}
        /\ plainOf' = IF modified THEN [plainOf EXCEPT ![id] = change] ELSE plainOf
        /\ UNCHANGED <<call, ui, NODE_ENV, env, nextId, now, kept, loggedOut, req, last>>

\* registrations followed by saves of the records and logins
NextSave ==
    \/ \E keep \in BOOLEAN : Deliver(keep)
    \/ \E h \in FrontendHeaders, u \in Usernames, e \in Emails, p \in Passwords :
          Busy = {} /\ RegisterCheck(FirstSlot, h, u, e, p)
    \/ RegisterCreate(FirstSlot)
    \/ \E id \in UserIds, change \in {"none"} \cup Passwords : Busy = {} /\ UserSave(id, change)
    \/ \E h \in FrontendHeaders, e \in Emails, p \in Passwords :
          Busy = {} /\ Login(FirstSlot, h, e, p, TRUE)
    \/ \E h \in FrontendHeaders, c \in {NoToken, kept} :
          Busy = {} /\ ProtectVerify(FirstSlot, h, "me", c, NoAuth)
    \/ ProtectResolve(FirstSlot)

SpecSave == Init /\ [][NextSave]_vars

\* ---------------------------------------------------------------- frontend
\* ui.session is whether the browser holds a cookie the backend accepts;
\* ui.auth is what useAuth reports: "loading" (isLoading), "authenticated"
\* (isAuthenticated) or "unauthenticated"; ui.reload is the address assigned to
\* window.location and not loaded yet
Paths == {"/", "/login", "/register", "/profile", "/settings"}

\* what a route element gives the router: a screen to show or a <Navigate>
Show(screen) == [screen |-> screen, to |-> "none"]
Navigate(to) == [screen |-> "none", to |-> to]

ProtectedRoute(auth, page) ==
    IF auth = "loading" THEN Show("Loader")
    ELSE IF auth # "authenticated" THEN Navigate("/login")
    ELSE Show(page)

PublicRoute(auth, page) == IF auth = "authenticated" THEN Navigate("/profile") ELSE Show(page)

\* a Home page that renders whoever looks at it
Home_NoRedirect(auth) == Show("Home")

Home(auth) == IF auth = "authenticated" THEN Navigate("/profile") ELSE Show("Home")

Route(path, auth) ==
    CASE path = "/" -> Home(auth)
      [] path = "/login" -> PublicRoute(auth, "Login")
      [] path = "/register" -> PublicRoute(auth, "Register")
      [] path = "/profile" -> ProtectedRoute(auth, "Profile")
      [] path = "/settings" -> ProtectedRoute(auth, "Settings")

\* the router following <Navigate> elements until a screen is shown
RECURSIVE Routed(_, _)
Routed(path, auth) ==
    LET element == Route(path, auth)
    IN  IF element.to = "none" THEN [path |-> path, screen |-> element.screen]
        ELSE Routed(element.to, auth)

Rendered(u) ==
    LET shown == Routed(u.path, u.auth)
    IN  [u EXCEPT !.path = shown.path, !.screen = shown.screen]

\* the document loaded at a path: nothing in memory survives, the cookie and the
\* theme in localStorage do, and useAuth asks the backend who the user is
Mounted(u, path) ==
    Rendered([ClosedUi EXCEPT !.path = path, !.auth = "loading", !.checking = TRUE,
                              !.session = u.session, !.theme = u.theme])

\* the response interceptor of the axios instance
Interceptor(u, status) == IF status = 401 THEN [u EXCEPT !.reload = "/login"] ELSE u

\* the status of the backend's answer to GET /auth/me and to POST /auth/logout
GuardedStatus(session, mode, t) ==
    IF session THEN getMe(NoUser).code
    ELSE errorHandler(protectVerify(NoToken, NoAuth, t).err, mode).code

\* the status of the backend's answer to a login with credentials it refuses
RefusedStatus(mode) == errorHandler(loginCredentials(NoUser, ""), mode).code

UnexpectedStatus(mode) == errorHandler(StoreDown, mode).code

\* a handler that leaves the page whatever logout() did
handleLogout_NavigateAlways(u, status) ==
    [u EXCEPT !.logout = IF status = 200 THEN "resolved" ELSE "rejected",
              !.status = status,
              !.toasts = @ \o <<IF status = 200 THEN "success" ELSE "error">>,
              !.navigated = "/", !.path = "/"]

\* handleLogout of Profile and of Settings after logout() has settled
handleLogout(u, status) ==
    IF status = 200
    THEN [u EXCEPT !.logout = "resolved", !.status = status, !.toasts = @ \o <<"success">>,
                   !.navigated = "/", !.path = "/"]
    ELSE [u EXCEPT !.logout = "rejected", !.status = status, !.toasts = @ \o <<"error">>]

Backend == <<plainOf, call, NODE_ENV, env, users, nextId, now, kept, loggedOut, req, last>>

\* the address typed into the browser
Open(path) ==
    /\ ui.reload = "none"
    /\ ui' = Mounted(ui, path)
    /\ UNCHANGED Backend

\* the browser loads the address assigned to window.location
Reload ==
    /\ ui.reload # "none"
    /\ ui' = Mounted(ui, ui.reload)
    /\ UNCHANGED Backend

\* GET /auth/me of useAuth is answered
MeResponds(status) ==
    /\ ui.checking
    /\ ui.reload = "none"
    /\ status \in {GuardedStatus(ui.session, NODE_ENV, now), UnexpectedStatus(NODE_ENV)}
    /\ ui' = Rendered(Interceptor([ui EXCEPT !.checking = FALSE,
                                             !.auth = IF status = 200 THEN "authenticated"
                                                      ELSE "unauthenticated"], status))
    /\ UNCHANGED Backend

\* a <Link> of the screen shown
Links(screen) ==
    CASE screen = "Home" -> {"/login", "/register"}
      [] screen = "Login" -> {"/register"}
      [] screen = "Register" -> {"/login"}
      [] screen \in {"Profile", "Settings"} -> {"/profile", "/settings"}
      [] OTHER -> {}

Link(to) ==
    /\ ui.reload = "none"
    /\ to \in Links(ui.screen)
    /\ ui' = Rendered([ui EXCEPT !.path = to])
    /\ UNCHANGED Backend

toggleTheme ==
    /\ ui.reload = "none"
    /\ ui.screen \in {"Home", "Profile", "Settings"}
    /\ ui' = [ui EXCEPT !.theme = IF @ = "light" THEN "dark" ELSE "light"]
    /\ UNCHANGED Backend

\* the form of Login or of Register submitted and answered
Submit(status) ==
    /\ ui.reload = "none"
    /\ ui.screen \in {"Login", "Register"}
    /\ status \in IF ui.screen = "Login"
                   THEN {200, RefusedStatus(NODE_ENV), UnexpectedStatus(NODE_ENV)}
                   ELSE {201, registerConflictError("email").statusCode, UnexpectedStatus(NODE_ENV)}
    /\ ui' = IF status \in {200, 201}
             THEN Rendered([ui EXCEPT !.session = TRUE, !.auth = "authenticated"])
             ELSE Interceptor(ui, status)
    /\ UNCHANGED Backend

\* the logout button of Profile or of Settings
ClickLogout ==
    /\ ui.reload = "none"
    /\ ui.screen \in {"Profile", "Settings"}
    /\ ui.logout # "pending"
    /\ ui' = [ui EXCEPT !.logout = "pending", !.status = 0, !.toasts = <<>>, !.navigated = "none"]
    /\ UNCHANGED Backend

\* logout() of useAuth settles and handleLogout goes on
LogoutResponds(status) ==
    LET answered == Interceptor(IF status = 200
                                THEN [ui EXCEPT !.session = FALSE, !.auth = "unauthenticated"]
                                ELSE ui, status)
    IN  /\ ui.logout = "pending"
        /\ ui.reload = "none"
        /\ status \in {GuardedStatus(ui.session, NODE_ENV, now), UnexpectedStatus(NODE_ENV)}
        /\ ui' = Rendered(handleLogout(answered, status))
        /\ UNCHANGED Backend

\* the cookie expires in the browser
SessionEnds ==
    /\ ui.session
    /\ ui' = [ui EXCEPT !.session = FALSE]
    /\ UNCHANGED Backend

Automatic ==
    \/ Reload
    \/ \E status \in {200, 401, 500} : MeResponds(status)
    \/ \E status \in {200, 401, 500} : LogoutResponds(status)

\* what the person at the browser, and the expiry of the cookie, do
Visitor ==
    \/ \E path \in Paths : Open(path)
    \/ \E to \in Paths : Link(to)
    \/ toggleTheme
    \/ \E status \in {200, 201, 401, 409, 500} : Submit(status)
    \/ ClickLogout
    \/ SessionEnds

NextUI == Visitor \/ Automatic

SpecUI == Init /\ [][NextUI]_vars

\* the browser and the backend do not stop: a pending load happens and a
\* request in flight is answered
SpecUILive == SpecUI /\ WF_vars(Automatic)

\* ---------------------------------------------------------------- properties
\* what the properties are stated about
Answered == last # NoEvent
Guarded == Answered /\ last.req.route \in {"me", "logout"}
HandlerRan == Guarded /\ last.res.writer \in {"getMe", "logout"}

\* a token the server issued, unaltered
Genuine(tok) == tok.fmt = "jwt" /\ tok = SignToken(tok.id, tok.iat)
Unexpired(tok, t) == t < tok.iat + ExpiresIn

\* the Bearer token of an Authorization header, NoToken when it carries none
BearerOf(auth) == IF Len(auth) >= 2 /\ auth[1] = "Bearer" THEN auth[2] ELSE NoToken

RecordsOf(id) == {u \in users : u.id = id}

\* C1: a protected handler runs, with a user attached, only for a request whose
\* token is genuine and unexpired and names an existing active record, and the
\* attached user is that record
C1_GuardAcceptance ==
    HandlerRan =>
        /\ last.req.token \in {last.req.cookie, BearerOf(last.req.auth)}
        /\ Genuine(last.req.token)
        /\ Unexpired(last.req.token, last.req.at)
        /\ \E u \in users :
              /\ u.id = last.req.token.id
              /\ u.isActive
              /\ last.req.user = [u EXCEPT !.password = Absent]

C1_Witness ==
    /\ HandlerRan
    /\ last.res.writer = "getMe"
    /\ last.res.code = 200
    /\ last.req.user.id = last.req.token.id

\* C2: the token is the cookie when there is one and the Bearer header only
\* when the cookie is absent; a request with neither is answered 401 "not logged
\* in" by the error handler and no handler runs
NoCredential(r) == r.cookie = NoToken /\ BearerOf(r.auth) = NoToken

ExtractedRight(r) ==
    /\ r.cookie # NoToken => (r.src = "cookie" /\ r.token = r.cookie)
    /\ r.src = "header" => (r.cookie = NoToken /\ r.token = BearerOf(r.auth))

C2_ExtractOrder ==
    /\ \A r \in Slots : req[r].pc = "lookup" => (ExtractedRight(req[r]) /\ ~NoCredential(req[r]))
    /\ Guarded =>
          /\ ExtractedRight(last.req)
          /\ NoCredential(last.req) =>
                /\ last.res.writer = "errorHandler"
                /\ last.res.code = 401
                /\ last.res.message = "You are not logged in"
                /\ last.req.user = NoUser

C2_Witness ==
    /\ Guarded
    /\ last.req.cookie = NoToken
    /\ last.req.auth = NoAuth
    /\ last.res.code = 401

\* C3: a request whose token is malformed, tampered or expired is answered 401
\* in every mode, and only the expired one carries the expired detail
VerifyFailed(r) == r.token # NoToken /\ (~Genuine(r.token) \/ ~Unexpired(r.token, r.at))
ExpiredDetails == {"jwt expired", "Token expired. Please log in again"}

C3_VerifyRejects401 ==
    (Guarded /\ VerifyFailed(last.req)) =>
        /\ last.res.code = 401
        /\ (last.res.message \in ExpiredDetails) <=> Genuine(last.req.token)

\* C4 as claimed: a valid token of a deactivated user is answered 403
Deactivated(r) ==
    /\ r.token # NoToken
    /\ ~VerifyFailed(r)
    /\ \E u \in users : u.id = r.token.id /\ ~u.isActive

C4_DeactivatedForbidden ==
    (Guarded /\ Deactivated(last.req)) => (last.res.code = 403 /\ last.req.user = NoUser)

\* C4 as amended: a valid token of a deactivated user is answered 401 "User
\* account is deactivated" by the error handler, and no user is attached
C4_DeactivatedUnauthorized ==
    (Guarded /\ Deactivated(last.req)) =>
        /\ last.res.writer = "errorHandler"
        /\ last.res.code = 401
        /\ last.res.message = "User account is deactivated"
        /\ last.req.user = NoUser
        /\ last.res.user = NoUser

C4_Witness ==
    /\ Guarded
    /\ Deactivated(last.req)
    /\ last.res.code = 401

\* C5: a valid token whose subject matches no record is answered 401 "User no
\* longer exists", and the document protect looks up never has the password
Orphaned(r) == r.token # NoToken /\ ~VerifyFailed(r) /\ RecordsOf(r.token.id) = {}

C5_ResolveMissing ==
    Guarded =>
        /\ last.req.found.password = Absent
        /\ last.req.user.password = Absent
        /\ Orphaned(last.req) =>
              /\ last.res.writer = "errorHandler"
              /\ last.res.code = 401
              /\ last.res.message = "User no longer exists"
              /\ last.req.user = NoUser

C5_Witness ==
    /\ Guarded
    /\ Orphaned(last.req)
    /\ last.res.code = 401
    /\ last.req.steps = <<"extract", "verify", "resolve">>

\* C6: the steps run in the order extract, verify, resolve, authorize, accept
\* and stop at the first that fails: no store lookup is pending or done for a
\* token that failed verification, and no verification for a missing credential
StepsExpected(r) ==
    IF r.token = NoToken THEN <<"extract">>
    ELSE IF VerifyFailed(r) THEN <<"extract", "verify">>
    ELSE IF RecordsOf(r.token.id) = {} THEN <<"extract", "verify", "resolve">>
    ELSE IF \E u \in RecordsOf(r.token.id) : ~u.isActive
         THEN <<"extract", "verify", "resolve", "authorize">>
    ELSE <<"extract", "verify", "resolve", "authorize", "accept", "handler">>

C6_GuardOrder ==
    /\ \A r \in Slots : req[r].pc = "lookup" =>
          /\ req[r].steps = <<"extract", "verify">>
          /\ req[r].token # NoToken
          /\ ~VerifyFailed(req[r])
    /\ Guarded =>
          /\ last.req.steps = StepsExpected(last.req)
          /\ (last.req.token = NoToken \/ VerifyFailed(last.req)) => last.req.found = NoUser

C6_Witness ==
    /\ Guarded
    /\ last.req.token.fmt = "jwt"
    /\ last.req.token.sig # Mac(last.req.token.id, last.req.token.iat, last.req.token.exp, JWT_SECRET)
    /\ last.req.steps = <<"extract", "verify">>
    /\ last.req.found = NoUser
    /\ last.res.writer = "errorHandler"

\* C7: a register whose email or username is taken is answered 409 with a
\* message naming the field, the store is left as it was and no token or cookie
\* is issued; a register that goes on to create saw no such record
Collides(body) == \E u \in users : u.email = body.email \/ u.username = body.username

C8_UniqueUnderRace ==
    /\ \A u1, u2 \in users :
          (u1.email = u2.email \/ u1.username = u2.username \/ u1.id = u2.id) => u1 = u2
    /\ (Answered /\ last.req.route = "register" /\ last.res.code = 201) =>
          /\ last.res.token = SignToken(last.res.user.id, last.req.at)
          /\ {u \in users : u.email = last.req.body.email} = {last.res.user}
          /\ {u \in users : u.username = last.req.body.username} = {last.res.user}

C8_Witness ==
    /\ Answered
    /\ last.req.route = "register"
    /\ last.req.steps = <<"check", "create">>
    /\ last.res.code # 201
    /\ last.res.token = NoToken
    /\ \E u \in users : u.email = last.req.body.email

\* C9: no response body carries a password field, plaintext or hash
C9_NoPasswordInBody == Answered => last.res.user.password = Absent

\* C10: a login with an unknown email and a login with a known email and a wrong
\* password, both answered by the store, get the same response: 401 and the
\* same message
LoginUnknownEmail(r) == r.err # StoreDown /\ ~\E u \in users : u.email = r.body.email
LoginWrongPassword(r) ==
    /\ r.err # StoreDown
    /\ \E u \in users : u.email = r.body.email /\ u.password # BcryptHash(r.body.password)

C10_LoginNonEnumeration ==
    (Answered /\ last.req.route = "login" /\ (LoginUnknownEmail(last.req) \/ LoginWrongPassword(last.req))) =>
        last.res = [writer |-> "errorHandler", code |-> 401, status |-> "fail",
                    message |-> "Incorrect email or password",
                    stack |-> (NODE_ENV = "development"),
                    token |-> NoToken, user |-> NoUser, cookie |-> NoCookie,
                    errors |-> <<>>]

C10_Witness ==
    /\ Answered
    /\ last.req.route = "login"
    /\ LoginWrongPassword(last.req)
    /\ last.res.code = 401

\* C11: a login with the right email and password of a deactivated account is
\* answered 403 by the error handler with no token and no cookie, and the
\* deactivated answer is given only to a login whose password matched
LoginMatches(r) ==
    /\ r.err # StoreDown
    /\ \E u \in users : u.email = r.body.email /\ u.password = BcryptHash(r.body.password)

LoginDeactivated(r) ==
    /\ LoginMatches(r)
    /\ \E u \in users : u.email = r.body.email /\ ~u.isActive

C12_LogoutNoRevoke ==
    (/\ Guarded
     /\ loggedOut
     /\ last.req.token = kept
     /\ Unexpired(kept, last.req.at)
     /\ \E u \in users : u.id = kept.id /\ u.isActive) =>
        /\ HandlerRan
        /\ last.res.code = 200
        /\ last.req.user.id = kept.id

C12_Witness ==
    /\ Guarded
    /\ loggedOut
    /\ last.req.route = "me"
    /\ last.req.token = kept
    /\ last.req.at > kept.iat
    /\ last.res.writer = "getMe"
    /\ last.res.code = 200

\* C13: a logout that passed protect is answered 200 with the cookie set to a
\* sentinel that is no valid token and expires 10 s after the handler ran; a logout
\* that failed protect is answered 401 and sets no cookie
C13_LogoutCookie ==
    (Guarded /\ last.req.route = "logout") =>
        IF last.res.writer = "logout"
        THEN /\ last.res.code = 200
             /\ last.res.cookie.set
             /\ last.res.cookie.value = LogoutSentinel
             /\ \A t \in Instants : JwtVerify(last.res.cookie.value, t) # "ok"
             /\ last.res.cookie.expires = DateOf(now + 10)
             /\ last.res.cookie.expires.time > now
        ELSE /\ last.res.code = 401
             /\ ~last.res.cookie.set

\* C14: every cookie set is httpOnly, secure exactly in production, sameSite
\* "none" exactly in production and "strict" otherwise, hence never "none"
\* without secure; only register, login and logout set one
C14_CookieAttributes ==
    (Answered /\ last.res.cookie.set) =>
        /\ last.req.route \in {"register", "login", "logout"}
        /\ last.res.cookie.httpOnly
        /\ last.res.cookie.secure <=> (NODE_ENV = "production")
        /\ last.res.cookie.sameSite = (IF NODE_ENV = "production" THEN "none" ELSE "strict")
        /\ ~(last.res.cookie.sameSite = "none" /\ ~last.res.cookie.secure)

C14_Witness ==
    /\ Answered
    /\ NODE_ENV = "production"
    /\ last.req.route = "logout"
    /\ last.res.cookie.set
    /\ last.res.cookie.secure
    /\ last.res.cookie.sameSite = "none"

\* C15: the cookie set with a token expires when the token does, under every
\* configuration of the two lifetimes
C15_LifetimesEqual ==
    (Answered /\ last.res.writer = "createSendToken") =>
        /\ last.res.cookie.set
        /\ last.res.cookie.value = last.res.token
        /\ last.res.cookie.expires.valid
        /\ last.res.cookie.expires.time = last.res.token.exp

\* C16: a genuine token of an existing active user is accepted at every time
\* before issue time + time-to-live and answered 401 at every time after it
ActiveSubject(tok) == \E u \in users : u.id = tok.id /\ u.isActive

C16_ValidityWindow ==
    (Guarded /\ Genuine(last.req.token) /\ ActiveSubject(last.req.token)) =>
        /\ last.req.at >= last.req.token.iat
        /\ last.req.at < last.req.token.iat + ExpiresIn =>
              (HandlerRan /\ last.res.code = 200)
        /\ last.req.at > last.req.token.iat + ExpiresIn =>
              (~HandlerRan /\ last.res.code = 401)

\* the step in which protect gets the answer of User.findById for slot r
Looked(r) == req[r].pc = "lookup" /\ req'[r].pc = "idle"
InactiveAtLookup(r) == \E u \in users : u.id = req[r].token.id /\ ~u.isActive
ActiveAtLookup(r) == \E u \in users : u.id = req[r].token.id /\ u.isActive

\* C17 as claimed: a request whose lookup finds the account deactivated is
\* answered 403
C17_DeactivationForbidden ==
    [][\A r \in Slots : (Looked(r) /\ InactiveAtLookup(r)) => last'.res.code = 403]_vars

\* C17 as amended: a request whose lookup finds the account deactivated is
\* answered 401 "User account is deactivated" whatever its token, and a request
\* is accepted only if the account was active at the moment of its lookup
C17_DeactivationNextRequest ==
    [][\A r \in Slots : Looked(r) =>
          /\ InactiveAtLookup(r) =>
                /\ last'.res.writer = "errorHandler"
                /\ last'.res.code = 401
                /\ last'.res.message = "User account is deactivated"
                /\ last'.req.user = NoUser
          /\ last'.res.writer \in {"getMe", "logout"} => ActiveAtLookup(r)]_vars

C17_Witness ==
    /\ Guarded
    /\ last.req.token = kept
    /\ Genuine(kept)
    /\ Unexpired(kept, last.req.at)
    /\ last.req.at > kept.iat
    /\ \E u \in users : u.id = kept.id /\ ~u.isActive
    /\ last.res.message = "User account is deactivated"

\* C18: in production a request with a state-mutating method whose Origin, or
\* Referer when it has no Origin, does not match the allowed origin, or that
\* has neither header, is answered 403 by the guard and reaches no handler
Mutating == {"POST", "PUT", "PATCH", "DELETE"}

OriginMatches(r) ==
    IF r.origin # NoHeader THEN r.origin = CORS_ORIGIN
    ELSE r.referer = CORS_ORIGIN \/ StartsWith(r.referer, CORS_ORIGIN \o "/")

C18_OriginRejects ==
    /\ \A r \in Slots :
          (req[r].pc # "idle" /\ NODE_ENV = "production" /\ req[r].method \in Mutating) =>
              OriginMatches(req[r])
    /\ (Answered /\ NODE_ENV = "production" /\ last.req.method \in Mutating
          /\ ~OriginMatches(last.req)) =>
              /\ last.res.writer = "csrfProtection"
              /\ last.res.code = 403

\* C19: outside production, and for GET, HEAD and OPTIONS, the guard hands every
\* request on whatever its headers; whether it answers depends on the mode, the
\* method and the two headers only, and a request it answers changes no store
\* state and starts no handler
Blocked(r) ==
    /\ NODE_ENV = "production"
    /\ r.method \notin {"GET", "HEAD", "OPTIONS"}
    /\ \/ r.origin \notin {NoHeader, CORS_ORIGIN}
       \/ r.referer # NoHeader /\ ~StartsWith(r.referer, CORS_ORIGIN)

C19_OriginPassThrough ==
    [][(last = NoEvent /\ last' # NoEvent) =>
          /\ (NODE_ENV # "production" \/ last'.req.method \in {"GET", "HEAD", "OPTIONS"}) =>
                last'.res.writer # "csrfProtection"
          /\ last'.res.writer = "csrfProtection" <=> Blocked(last'.req)
          /\ last'.res.writer = "csrfProtection" =>
                /\ users' = users
                /\ nextId' = nextId
                /\ req' = req
                /\ last'.req.steps = <<"csrf">>]_vars

C19_Witness ==
    /\ Answered
    /\ NODE_ENV = "development"
    /\ last.req.method = "POST"
    /\ last.req.origin = "https://evil.example"
    /\ last.req.route = "register"
    /\ last.res.code = 201

\* C20: in production an operational error is answered with its own status
\* code and message; any other error is answered without its message and
\* without a stack, and with 500 and the generic message unless the handler
\* translated it
Translated(e) ==
    \/ e.name \in {"CastError", "ValidationError", "JsonWebTokenError", "TokenExpiredError"}
    \/ e.code = DUPLICATE_KEY

C20_ProductionBoundary ==
    (Answered /\ NODE_ENV = "production" /\ last.req.err # NoError) =>
        /\ last.res.writer = "errorHandler"
        /\ ~last.res.stack
        /\ last.req.err.isOperational =>
              /\ last.res.code = last.req.err.statusCode
              /\ last.res.message = last.req.err.message
        /\ ~last.req.err.isOperational =>
              /\ last.res.message # last.req.err.message
              /\ ~Translated(last.req.err) =>
                    /\ last.res.code = 500
                    /\ last.res.message = "Something went wrong!"

C20_Witness ==
    /\ Answered
    /\ NODE_ENV = "production"
    /\ last.req.err = StoreDown
    /\ last.res.code = 500
    /\ last.res.message = "Something went wrong!"

\* C22: the stored password of every record is the hash of the plaintext last
\* set for it and never that plaintext, so a save that leaves the password
\* alone leaves the hash alone; a login with that plaintext matches, and no
\* GET /auth/me response carries it
C22_PasswordStorage ==
    /\ \A u \in users :
          /\ u.password = BcryptHash(plainOf[u.id])
          /\ u.password # plainOf[u.id]
          /\ CorrectPassword(plainOf[u.id], u.password)
    /\ (Answered /\ last.res.writer = "getMe") =>
          \A u \in users : last.res.user.password # plainOf[u.id]

C22_Witness ==
    /\ Answered
    /\ last.req.route = "login"
    /\ last.res.code = 200
    /\ last.req.body.password = "password123"
    /\ \E u \in users : u.id = last.res.user.id /\ plainOf[u.id] = "password123"

\* C23: a register answered 201 and a login answered 200 carry one token: its
\* subject is the created or matched user, it is unexpired and verifies, and
\* the cookie of the response holds the same value; a register or login
\* answered otherwise carries no token and sets no cookie
C23_TransportConsistency ==
    (Answered /\ last.req.route \in {"register", "login"}) =>
        IF last.res.code \in {200, 201}
        THEN /\ last.res.code = (IF last.req.route = "register" THEN 201 ELSE 200)
             /\ last.res.token = SignToken(last.res.user.id, now)
             /\ JwtVerify(last.res.token, now) = "ok"
             /\ last.res.cookie.set
             /\ last.res.cookie.value = last.res.token
             /\ \E u \in users :
                   /\ u.id = last.res.token.id
                   /\ u.email = last.req.body.email
                   /\ u = last.res.user
        ELSE /\ last.res.token = NoToken
             /\ ~last.res.cookie.set

C23_Witness ==
    /\ Answered
    /\ last.req.route = "login"
    /\ last.res.code = 200
    /\ last.res.cookie.value = last.res.token
    /\ last.res.token.id = last.res.user.id

\* C21 as claimed: a duplicate key that reaches the error handler is answered
\* 409, a cast error and a schema validation error 400, and in production the
\* driver's message is not sent
StoreFailure(e) == e.code = DUPLICATE_KEY \/ e.name \in {"CastError", "ValidationError"}

C25_AsyncHandlerForwards ==
    call.pc = "done" =>
        /\ call.escaped = NoError
        /\ call.nextCalls = (IF Fails(call.fn) THEN <<call.err>> ELSE <<>>)

\* C26: every error response is written by errorHandler
C26_SingleErrorBoundary ==
    (Answered /\ last.res.code >= 400) => last.res.writer = "errorHandler"

\* C27: a request whose cookie holds a token that does not verify is rejected
\* with 401 on that cookie, whatever valid token its Bearer header carries
InvalidCookie(r) == r.cookie # NoToken /\ (~Genuine(r.cookie) \/ ~Unexpired(r.cookie, r.at))
ValidBearer(r) ==
    /\ Genuine(BearerOf(r.auth))
    /\ Unexpired(BearerOf(r.auth), r.at)
    /\ ActiveSubject(BearerOf(r.auth))

C27_CookiePrecedence ==
    (Guarded /\ InvalidCookie(last.req) /\ ValidBearer(last.req)) =>
        /\ last.req.token = last.req.cookie
        /\ last.req.src = "cookie"
        /\ ~HandlerRan
        /\ last.res.code = 401

\* C28: in production, for a state-mutating request that carries an Origin or a
\* Referer, the guard answers exactly when the Origin, or the Referer when there
\* is no Origin, does not denote the allowed origin; a Referer that only starts
\* with the allowed origin does not denote it
C28_RefererFallback ==
    (/\ Answered
     /\ NODE_ENV = "production"
     /\ last.req.method \in Mutating
     /\ last.req.origin # NoHeader \/ last.req.referer # NoHeader) =>
        (last.res.writer = "csrfProtection" <=> ~OriginMatches(last.req))

\* C24: Profile and Settings are on screen only while the user is
\* authenticated, a user known not to be is never left on a protected path, and
\* while the user is authenticated neither Home nor Login nor Register is on
\* screen and the path is a protected one
C24_RouteGuarding ==
    /\ ui.screen \in {"Profile", "Settings"} => ui.auth = "authenticated"
    /\ ui.auth = "unauthenticated" => ui.path \notin {"/profile", "/settings"}
    /\ ui.auth = "authenticated" =>
          /\ ui.screen \notin {"Home", "Login", "Register"}
          /\ ui.path \in {"/profile", "/settings"}
    /\ ui.screen = "Loader" => ui.auth = "loading" /\ ui.path \in {"/profile", "/settings"}

C24_Witness ==
    /\ ui.auth = "authenticated"
    /\ ui.screen = "Settings"
    /\ ui.path = "/settings"
    /\ ~ui.checking

\* C29 as claimed: nothing is shown and nothing navigates while logout() is
\* pending; after it resolved exactly the success toast is shown and the handler
\* went to "/"; after it rejected exactly the error toast is shown and no
\* navigation happens
LogoutOrdered ==
    /\ ui.logout \in {"none", "pending"} => ui.toasts = <<>> /\ ui.navigated = "none"
    /\ ui.logout = "resolved" =>
          ui.toasts = <<"success">> /\ ui.navigated = "/" /\ ui.status = 200
    /\ ui.logout = "rejected" =>
          ui.toasts = <<"error">> /\ ui.navigated = "none" /\ ui.status # 200

LogoutSettles == ui.logout = "pending" /\ ui'.logout \in {"resolved", "rejected"}

C29_LogoutNoNavigation ==
    [][/\ LogoutOrdered'
       /\ (LogoutSettles /\ ui'.logout = "rejected") =>
             ui'.path = ui.path /\ ui'.reload = "none"]_vars

\* C29 as amended: the same, but after a rejection it is the handler that does
\* not navigate and the path is unchanged; the browser is on its way to /login
\* exactly when the rejection was a 401
C29_LogoutHandler ==
    [][/\ LogoutOrdered'
       /\ (LogoutSettles /\ ui'.logout = "resolved") => ui'.path = "/" /\ ui'.reload = "none"
       /\ (LogoutSettles /\ ui'.logout = "rejected") =>
             /\ ui'.path = ui.path
             /\ ui'.reload = "/login" <=> ui'.status = 401]_vars

C29_Witness ==
    /\ ui.logout = "rejected"
    /\ ui.status = 401
    /\ ui.toasts = <<"error">>
    /\ ui.navigated = "none"
    /\ ui.reload = "/login"

\* C30: once a visitor without a session has loaded a page and leaves the
\* browser alone, the client comes to a page with no check in flight and no
\* load pending
VisitorLoading == ~ui.session /\ ui.checking
Stable == ui.path # "none" /\ ~ui.checking /\ ui.reload = "none"

C30_VisitorSettles == <>[][~Visitor]_vars => (VisitorLoading ~> Stable)

====
